---- MODULE Spec2Model ----
(***************************************************************************)
(* Model of blade/app/classes/solver.py: the Solver session (new), the     *)
(* requirement filter, the value-matrix builder, the result assembler and  *)
(* the solve pipeline.  The database (Bdd) and the TOPSIS ranker are       *)
(* collaborators outside solver.py: the database is the session's input    *)
(* data, the ranker is a call that either completes with an optimum row    *)
(* index or raises.                                                        *)
(*                                                                         *)
(* Python lists are sequences (index i of the code is i+1 here).  An       *)
(* alternative held in results is represented by its position in           *)
(* self.alternatives, which stands for the identity of the dict object the *)
(* code appends.  optimum_id keeps the code's 0-based row index.           *)
(***************************************************************************)
EXTENDS Integers, Sequences, FiniteSets

\* ------------------------------------------------------------------ bounds
\* alternatives in the database of a solve session
MaxAlts == 2
\* alternatives in the database of a filter session
MaxFilterAlts == 1
\* solve calls between two calls of new
MaxCalls == 2

\* --------------------------------------------------------- python values
\* results['optimum_id'] = None
NoneId == -1

Num(n) == [kind |-> "num", name |-> "", value |-> n]
Str(s) == [kind |-> "str", name |-> s, value |-> 0]

\* ------------------------------------------------------- database content
\* bdd.get_abst_labels_values(): the categorical lookup table
AbstLabelsValues == << [name |-> "high", value |-> 1], [name |-> "low", value |-> 0] >>

\* labels of the two attributes of the catalog, in catalog order
AttrLabels == << "a1", "a2" >>

\* one attribute's metadata rows
AttrMeta ==
  { [type |-> "numeric", defaultCost |-> 1],
    [type |-> "categorical", defaultCost |-> 0],
    [type |-> "boolean", defaultCost |-> 0] }

\* bdd.get_attributes_metadata()
Catalog(m1, m2) ==
  << [name |-> AttrLabels[1], defaultCost |-> m1.defaultCost, type |-> m1.type],
     [name |-> AttrLabels[2], defaultCost |-> m2.defaultCost, type |-> m2.type] >>

Catalogs == { Catalog(m1, m2) : m1 \in AttrMeta, m2 \in AttrMeta }

\* raw attribute values stored with an alternative
RawValues == { Num(1), Str("low") }

\* consideredAttributes: attribute label -> {value}; a label may be absent
ConsideredAttributes ==
  UNION { [D -> [value : RawValues]] : D \in SUBSET { AttrLabels[1], AttrLabels[2] } }

\* infoAttributes: descriptive fields; consensusAlgorithm may be absent
InfoAttributes ==
  UNION { [D -> {"pow"}] : D \in SUBSET {"consensusAlgorithm"} }

HasInfo(b) == "consensusAlgorithm" \in DOMAIN b.infoAttributes

AlternativeRecords ==
  [consideredAttributes : ConsideredAttributes, infoAttributes : InfoAttributes]

RECURSIVE SeqsUpTo(_, _)
SeqsUpTo(S, n) ==
  IF n = 0 THEN { <<>> }
  ELSE LET shorter == SeqsUpTo(S, n - 1)
       IN  shorter \cup { Append(s, x) : s \in { t \in shorter : Len(t) = n - 1 }, x \in S }

\* ------------------------------------------------------------ user input
Thresholds == { -1, 0, 1 }

RequirementTuples == BOOLEAN \X Thresholds

RequirementVectors == { << r1, r2 >> : r1 \in RequirementTuples, r2 \in RequirementTuples }

WeightVectors == { << 0, 0 >>, << 1, -1 >> }

\* ------------------------------------------------------- session families
\* Solve sessions: one catalog (a1 numeric with a truthy cost flag, a2
\* categorical with a falsy one), every alternative list up to MaxAlts, no
\* requirement or one requirement, on a1 or on a2.
SolveCatalogs ==
  { Catalog([type |-> "numeric", defaultCost |-> 1], [type |-> "categorical", defaultCost |-> 0]) }

SolveDatabases ==
  [attributes : SolveCatalogs, alternatives : SeqsUpTo(AlternativeRecords, MaxAlts)]

SolveInputs ==
  [weights : WeightVectors,
   requirements : { << << FALSE, 0 >>, << FALSE, 0 >> >>,
                    << << TRUE, 1 >>, << FALSE, 0 >> >>,
                    << << FALSE, 0 >>, << TRUE, 0 >> >> }]

\* Filter sessions: every catalog and requirement vector, alternative lists up
\* to MaxFilterAlts whose descriptive fields are complete.
FilterDatabases ==
  [attributes : Catalogs,
   alternatives : SeqsUpTo({ a \in AlternativeRecords : HasInfo(a) }, MaxFilterAlts)]

FilterInputs == [weights : { << 1, -1 >> }, requirements : RequirementVectors]

\* the arguments new() is called with over database db
UserInputs(db) ==
  (IF db \in SolveDatabases THEN SolveInputs ELSE {})
    \cup (IF db \in FilterDatabases THEN FilterInputs ELSE {})

\* ----------------------------------------------------------------- state
VARIABLES
  bdd,                  \* database content read by new()
  alternatives_attrs,   \* self.alternatives_attrs
  costs,                \* self.costs
  types,                \* self.types
  alternatives,         \* self.alternatives
  weights,              \* self.weights
  requirements,         \* self.requirements
  results,              \* self.results
  alternatives_values,  \* self.alternatives_values
  pc,                   \* position inside solve
  outcome,              \* how the last solve call ended
  calls,                \* solve calls since the last new()
  ranker_calls,         \* topsis invocations since the last new()
  ranker_done           \* topsis invocations that completed since the last new()

vars == << bdd, alternatives_attrs, costs, types, alternatives, weights, requirements,
           results, alternatives_values, pc, outcome, calls, ranker_calls, ranker_done >>

\* ------------------------------------------------------- pure operations
Truthy(x) == x # 0

Abs(x) == IF x < 0 THEN -x ELSE x

RECURSIVE SumAbs(_)
SumAbs(w) == IF w = <<>> THEN 0 ELSE Abs(Head(w)) + SumAbs(Tail(w))

\* the weight test with >= for >
weights_nonzero_ge(w) == SumAbs(w) >= 0

\* solve, line 173: sum(abs(x) for x in self.weights) > 0
weights_nonzero(w) == SumAbs(w) > 0

\* get_attributes_metadata
get_attributes_metadata(attr_meta) ==
  [ labels |-> [i \in 1..Len(attr_meta) |-> attr_meta[i].name],
    costs  |-> [i \in 1..Len(attr_meta) |-> attr_meta[i].defaultCost],
    types  |-> [i \in 1..Len(attr_meta) |-> attr_meta[i].type] ]

\* update_costs_with_reqs
update_costs_with_reqs(cs, ts, reqs) ==
  [i \in 1..Len(ts) |-> IF ts[i] = "boolean" THEN reqs[i][2] ELSE cs[i]]

\* format_value: first entry of the lookup whose name equals the value
RECURSIVE format_value_from(_, _)
format_value_from(value, k) ==
  IF k > Len(AbstLabelsValues) THEN value
  ELSE IF value.kind = "str" /\ AbstLabelsValues[k].name = value.name
       THEN Num(AbstLabelsValues[k].value)
       ELSE format_value_from(value, k + 1)

format_value(value) == format_value_from(value, 1)

\* the inner loop with <= for < and >= for >
RECURSIVE check_requirements_le(_, _, _, _, _)
check_requirements_le(b, i, reqs, cs, attrs) ==
  IF i > Len(reqs) THEN "qualified"
  ELSE IF ~reqs[i][1] THEN check_requirements_le(b, i + 1, reqs, cs, attrs)
  ELSE IF attrs[i] \notin DOMAIN b.consideredAttributes THEN "KeyError"
  ELSE LET v == format_value(b.consideredAttributes[attrs[i]].value)
       IN  IF v.kind # "num" THEN "TypeError"
           ELSE IF Truthy(cs[i])
                THEN IF v.value <= reqs[i][2] THEN "disqualified"
                     ELSE check_requirements_le(b, i + 1, reqs, cs, attrs)
                ELSE IF v.value >= reqs[i][2] THEN "disqualified"
                     ELSE check_requirements_le(b, i + 1, reqs, cs, attrs)

\* the inner loop with the two comparisons exchanged
RECURSIVE check_requirements_swapped(_, _, _, _, _)
check_requirements_swapped(b, i, reqs, cs, attrs) ==
  IF i > Len(reqs) THEN "qualified"
  ELSE IF ~reqs[i][1] THEN check_requirements_swapped(b, i + 1, reqs, cs, attrs)
  ELSE IF attrs[i] \notin DOMAIN b.consideredAttributes THEN "KeyError"
  ELSE LET v == format_value(b.consideredAttributes[attrs[i]].value)
       IN  IF v.kind # "num" THEN "TypeError"
           ELSE IF Truthy(cs[i])
                THEN IF v.value > reqs[i][2] THEN "disqualified"
                     ELSE check_requirements_swapped(b, i + 1, reqs, cs, attrs)
                ELSE IF v.value < reqs[i][2] THEN "disqualified"
                     ELSE check_requirements_swapped(b, i + 1, reqs, cs, attrs)

\* the inner loop without the break: the remaining requirements are still
\* evaluated after one has failed
RECURSIVE check_requirements_nobreak(_, _, _, _, _)
check_requirements_nobreak(b, i, reqs, cs, attrs) ==
  IF i > Len(reqs) THEN "qualified"
  ELSE IF ~reqs[i][1] THEN check_requirements_nobreak(b, i + 1, reqs, cs, attrs)
  ELSE IF attrs[i] \notin DOMAIN b.consideredAttributes THEN "KeyError"
  ELSE LET v == format_value(b.consideredAttributes[attrs[i]].value)
           rest == check_requirements_nobreak(b, i + 1, reqs, cs, attrs)
       IN  IF v.kind # "num" THEN "TypeError"
           ELSE IF rest \in {"KeyError", "TypeError"} THEN rest
           ELSE IF Truthy(cs[i])
                THEN IF v.value < reqs[i][2] THEN "disqualified" ELSE rest
                ELSE IF v.value > reqs[i][2] THEN "disqualified" ELSE rest

\* inner loop of filter_unsuitable_alternatives for one alternative b, from
\* requirement index i on: "qualified", "disqualified", or the exception raised
RECURSIVE check_requirements(_, _, _, _, _)
check_requirements(b, i, reqs, cs, attrs) ==
  IF i > Len(reqs) THEN "qualified"
  ELSE IF ~reqs[i][1] THEN check_requirements(b, i + 1, reqs, cs, attrs)
  ELSE IF attrs[i] \notin DOMAIN b.consideredAttributes THEN "KeyError"
  ELSE LET v == format_value(b.consideredAttributes[attrs[i]].value)
       IN  IF v.kind # "num" THEN "TypeError"
           ELSE IF Truthy(cs[i])
                THEN IF v.value < reqs[i][2] THEN "disqualified"
                     ELSE check_requirements(b, i + 1, reqs, cs, attrs)
                ELSE IF v.value > reqs[i][2] THEN "disqualified"
                     ELSE check_requirements(b, i + 1, reqs, cs, attrs)

\* the outer loop without the else: a qualified alternative is appended to
\* both lists
RECURSIVE filter_unsuitable_alternatives_noelse(_, _, _, _, _, _)
filter_unsuitable_alternatives_noelse(alts, k, reqs, cs, attrs, res) ==
  IF k > Len(alts) THEN [results |-> res, exc |-> "none"]
  ELSE LET q == check_requirements(alts[k], 1, reqs, cs, attrs)
       IN  IF q = "qualified"
           THEN filter_unsuitable_alternatives_noelse(alts, k + 1, reqs, cs, attrs,
                  [res EXCEPT !.considered = Append(@, k), !.disqualified = Append(@, k)])
           ELSE IF q = "disqualified"
           THEN filter_unsuitable_alternatives_noelse(alts, k + 1, reqs, cs, attrs,
                  [res EXCEPT !.disqualified = Append(@, k)])
           ELSE [results |-> res, exc |-> q]

\* filter_unsuitable_alternatives: outer loop from alternative k on, res being
\* self.results so far; exc is the exception that ended the loop, if any
RECURSIVE filter_unsuitable_alternatives(_, _, _, _, _, _)
filter_unsuitable_alternatives(alts, k, reqs, cs, attrs, res) ==
  IF k > Len(alts) THEN [results |-> res, exc |-> "none"]
  ELSE LET q == check_requirements(alts[k], 1, reqs, cs, attrs)
       IN  IF q = "qualified"
           THEN filter_unsuitable_alternatives(alts, k + 1, reqs, cs, attrs,
                  [res EXCEPT !.considered = Append(@, k)])
           ELSE IF q = "disqualified"
           THEN filter_unsuitable_alternatives(alts, k + 1, reqs, cs, attrs,
                  [res EXCEPT !.disqualified = Append(@, k)])
           ELSE [results |-> res, exc |-> q]

\* one row of gen_alternatives_values_array
HasAllAttrs(b, attrs) == \A j \in 1..Len(attrs) : attrs[j] \in DOMAIN b.consideredAttributes

ValuesRow(b, attrs) ==
  [j \in 1..Len(attrs) |-> format_value(b.consideredAttributes[attrs[j]].value)]

\* gen_alternatives_values_array: rows appended from considered position k on;
\* a missing key raises before the row is appended
RECURSIVE gen_alternatives_values_array(_, _, _, _, _)
gen_alternatives_values_array(alts, considered, k, attrs, vals) ==
  IF k > Len(considered) THEN [values |-> vals, exc |-> "none"]
  ELSE IF ~HasAllAttrs(alts[considered[k]], attrs) THEN [values |-> vals, exc |-> "KeyError"]
  ELSE gen_alternatives_values_array(alts, considered, k + 1, attrs,
         Append(vals, ValuesRow(alts[considered[k]], attrs)))

\* return_topsis_res: TRUE when the message is assembled, FALSE when it raises
return_topsis_res(alts, res) ==
  IF res.optimum_id = NoneId
  THEN \A k \in 1..Len(res.considered) : HasInfo(alts[res.considered[k]])
  ELSE /\ \A k \in 1..Len(res.considered) : HasInfo(alts[res.considered[k]])
       /\ \A k \in 1..Len(res.disqualified) : HasInfo(alts[res.disqualified[k]])
       /\ res.optimum_id < Len(res.considered)

EmptyResults == [disqualified |-> <<>>, considered |-> <<>>, optimum_id |-> NoneId]

\* ---------------------------------------------------------------- actions
\* __init__ / new: the session after loading from the database
Loaded(db, w, r) ==
  LET meta == get_attributes_metadata(db.attributes)
  IN  /\ alternatives_attrs = meta.labels
      /\ types = meta.types
      /\ costs = update_costs_with_reqs(meta.costs, meta.types, r)
      /\ alternatives = db.alternatives
      /\ weights = w
      /\ requirements = r
      /\ results = EmptyResults
      /\ alternatives_values = <<>>

Init ==
  /\ bdd \in SolveDatabases
  /\ \E in \in SolveInputs : Loaded(bdd, in.weights, in.requirements)
  /\ pc = "idle"
  /\ outcome = "none"
  /\ calls = 0
  /\ ranker_calls = 0
  /\ ranker_done = 0

InitFilter ==
  /\ bdd \in FilterDatabases
  /\ \E in \in FilterInputs : Loaded(bdd, in.weights, in.requirements)
  /\ pc = "idle"
  /\ outcome = "none"
  /\ calls = 0
  /\ ranker_calls = 0
  /\ ranker_done = 0

\* new(weights, requirements, save) after a solve call; save hands the fresh
\* session to bdd.save_results, which changes nothing the solver reads
New ==
  /\ pc = "done"
  /\ \E in \in UserInputs(bdd) :
       LET meta == get_attributes_metadata(bdd.attributes)
       IN  /\ alternatives_attrs' = meta.labels
           /\ types' = meta.types
           /\ costs' = update_costs_with_reqs(meta.costs, meta.types, in.requirements)
           /\ alternatives' = bdd.alternatives
           /\ weights' = in.weights
           /\ requirements' = in.requirements
  /\ results' = EmptyResults
  /\ alternatives_values' = <<>>
  /\ pc' = "idle"
  /\ outcome' = "none"
  /\ calls' = 0
  /\ ranker_calls' = 0
  /\ ranker_done' = 0
  /\ UNCHANGED bdd

\* solve, lines 162-169 and 187-191: the filter, then the branch on the number
\* of considered alternatives.  An exception of the filter leaves solve as it
\* is ("KeyError", "TypeError"); with one considered alternative line 167 adds
\* a dict to a str, which raises a TypeError ("ConcatError") outside the try
SolveFilter ==
  /\ pc \in {"idle", "done"}
  /\ calls < MaxCalls
  /\ calls' = calls + 1
  /\ LET f == filter_unsuitable_alternatives(alternatives, 1, requirements, costs,
                                             alternatives_attrs, results)
         n == Len(f.results.considered)
     IN  /\ results' = f.results
         /\ IF f.exc # "none" THEN pc' = "done" /\ outcome' = f.exc
            ELSE IF n = 1 THEN pc' = "done" /\ outcome' = "ConcatError"
            ELSE IF n > 1 THEN pc' = "gen" /\ outcome' = "none"
            ELSE pc' = "done" /\ outcome' = "Zero"
  /\ UNCHANGED << bdd, alternatives_attrs, costs, types, alternatives, weights,
                  requirements, alternatives_values, ranker_calls, ranker_done >>

\* solve, lines 170-173 and 181-186: the value matrix, then the weight test
GenValues ==
  /\ pc = "gen"
  /\ LET g == gen_alternatives_values_array(alternatives, results.considered, 1,
                                            alternatives_attrs, alternatives_values)
     IN  /\ alternatives_values' = g.values
         /\ IF g.exc # "none" THEN pc' = "done" /\ outcome' = "Faulted"
            ELSE IF weights_nonzero(weights) THEN pc' = "topsis" /\ outcome' = "none"
            ELSE IF return_topsis_res(alternatives, results)
                 THEN pc' = "done" /\ outcome' = "SkipRank"
                 ELSE pc' = "done" /\ outcome' = "Faulted"
  /\ UNCHANGED << bdd, alternatives_attrs, costs, types, alternatives, weights,
                  requirements, results, calls, ranker_calls, ranker_done >>

\* topsis(...).optimum_choice: the row of maximum score, the first such row
\* on ties; rows with equal values score equally, so it is never a row that
\* repeats an earlier one
topsis_optimum_choices(matrix) ==
  { i \in 0..(Len(matrix) - 1) : \A j \in 0..(i - 1) : matrix[j + 1] # matrix[i + 1] }

\* solve, lines 174-179: the ranker completes with an optimum row
TopsisOk ==
  /\ pc = "topsis"
  /\ \E choice \in topsis_optimum_choices(alternatives_values) :
       /\ results' = [results EXCEPT !.optimum_id = choice]
       /\ IF return_topsis_res(alternatives, results')
          THEN outcome' = "Ranked"
          ELSE outcome' = "Faulted"
  /\ ranker_calls' = ranker_calls + 1
  /\ ranker_done' = ranker_done + 1
  /\ pc' = "done"
  /\ UNCHANGED << bdd, alternatives_attrs, costs, types, alternatives, weights,
                  requirements, alternatives_values, calls >>

\* solve, lines 174-175 and 182-186: the ranker raises
TopsisFail ==
  /\ pc = "topsis"
  /\ pc' = "done"
  /\ outcome' = "Faulted"
  /\ ranker_calls' = ranker_calls + 1
  /\ UNCHANGED << bdd, alternatives_attrs, costs, types, alternatives, weights,
                  requirements, results, alternatives_values, calls, ranker_done >>

Next == New \/ SolveFilter \/ GenValues \/ TopsisOk \/ TopsisFail

Spec == Init /\ [][Next]_vars

SpecFilter == InitFilter /\ [][Next]_vars

\* ----------------------------------------------------------------- claims
Range(s) == { s[k] : k \in 1..Len(s) }

Increasing(s) == \A k \in 1..(Len(s) - 1) : s[k] < s[k + 1]

\* the filter has run exactly once since the session was loaded
FilterRanOnce == calls = 1 /\ pc # "idle"

\* ... and none of its lookups or comparisons raised
FilterCompletedOnce == FilterRanOnce /\ outcome \notin {"KeyError", "TypeError"}

AttrIndices == 1..Len(AttrLabels)

\* the catalog's cost flag of attribute i as the claims define it
EffectiveCost(reqs, i) ==
  IF bdd.attributes[i].type = "boolean" THEN reqs[i][2] ELSE bdd.attributes[i].defaultCost

Present(b, i) == AttrLabels[i] \in DOMAIN b.consideredAttributes

\* the value of attribute i resolved through the categorical lookup
Resolved(b, i) ==
  LET raw == b.consideredAttributes[AttrLabels[i]].value
      hits == { e \in Range(AbstLabelsValues) : raw.kind = "str" /\ e.name = raw.name }
  IN  IF hits = {} THEN raw.value ELSE (CHOOSE e \in hits : TRUE).value

\* alternative b fails requirement i of reqs
Fails(b, reqs, i) ==
  /\ reqs[i][1]
  /\ Present(b, i)
  /\ \/ EffectiveCost(reqs, i) # 0 /\ Resolved(b, i) < reqs[i][2]
     \/ EffectiveCost(reqs, i) = 0 /\ Resolved(b, i) > reqs[i][2]

\* C1: after the filter has run once on a freshly loaded session without a
\* failing lookup, considered and disqualified are disjoint, contain every
\* input alternative exactly once, and each keeps the input order.
C1_Partition ==
  FilterCompletedOnce =>
    /\ Range(results.considered) \cap Range(results.disqualified) = {}
    /\ Range(results.considered) \cup Range(results.disqualified) = 1..Len(alternatives)
    /\ Len(results.considered) + Len(results.disqualified) = Len(alternatives)
    /\ Increasing(results.considered)
    /\ Increasing(results.disqualified)

C1_Witness ==
  /\ FilterCompletedOnce
  /\ Len(results.considered) >= 1
  /\ Len(results.disqualified) >= 1

\* C2: the effective cost flag of a boolean attribute is its requirement's
\* threshold, active or not, and the catalog's default otherwise; after the
\* filter has run, an alternative is disqualified if and only if some active
\* requirement i has (effective cost truthy and v_i < t_i) or (effective
\* cost falsy and v_i > t_i); equality never disqualifies.
C2_ReferencePredicate ==
  FilterCompletedOnce =>
    /\ \A i \in AttrIndices : costs[i] = EffectiveCost(requirements, i)
    /\ \A k \in 1..Len(alternatives) :
         (k \in Range(results.disqualified))
           <=> (\E i \in AttrIndices : Fails(alternatives[k], requirements, i))

C2_Witness ==
  /\ FilterCompletedOnce
  /\ \E i \in AttrIndices :
       /\ types[i] = "boolean"
       /\ requirements[i][1]
       /\ costs[i] # bdd.attributes[i].defaultCost
       /\ \E k \in Range(results.disqualified) : Fails(alternatives[k], requirements, i)
\* A second session over the same catalog and alternatives whose requirement
\* i is active with threshold t2: its effective costs and what its filter
\* leaves in considered.
SecondRequirements(i, t2) == [requirements EXCEPT ![i] = << TRUE, t2 >>]

SecondCosts(i, t2) ==
  update_costs_with_reqs(get_attributes_metadata(bdd.attributes).costs, types,
                         SecondRequirements(i, t2))

SecondConsidered(i, t2) ==
  filter_unsuitable_alternatives(alternatives, 1, SecondRequirements(i, t2),
                                 SecondCosts(i, t2), alternatives_attrs,
                                 EmptyResults).results.considered

\* t2 is tighter than the threshold of requirement i in the loaded session
Tighter(i, t2) ==
  IF Truthy(costs[i]) THEN t2 > requirements[i][2] ELSE t2 < requirements[i][2]

SameDirection(i, t2) == Truthy(SecondCosts(i, t2)[i]) <=> Truthy(costs[i])

\* C3 as stated: tightening the threshold of one active requirement, on an
\* attribute of any datatype, never moves an alternative from disqualified
\* to considered.
C3_MonotoneEveryDatatype ==
  FilterCompletedOnce =>
    \A i \in AttrIndices : \A t2 \in Thresholds :
      (requirements[i][1] /\ Tighter(i, t2)) =>
        Range(results.disqualified) \cap Range(SecondConsidered(i, t2)) = {}

\* C3 amended: the same for numeric and categorical attributes, and for a
\* boolean attribute when the tighter threshold leaves the truthiness of its
\* effective cost flag unchanged.
C3_MonotoneSameDirection ==
  FilterCompletedOnce =>
    \A i \in AttrIndices : \A t2 \in Thresholds :
      (requirements[i][1] /\ Tighter(i, t2) /\ SameDirection(i, t2)) =>
        Range(results.disqualified) \cap Range(SecondConsidered(i, t2)) = {}

C3_Witness ==
  /\ FilterCompletedOnce
  /\ results.disqualified # <<>>
  /\ \E i \in AttrIndices : \E t2 \in Thresholds :
       /\ requirements[i][1]
       /\ Tighter(i, t2)
       /\ SameDirection(i, t2)
       /\ \E k \in Range(results.disqualified) : Fails(alternatives[k], requirements, i)

\* the filter's lookup for alternative b raises: a key is missing at an
\* active index below every failing index
LookupRaises(b) ==
  \E j \in AttrIndices :
    /\ requirements[j][1]
    /\ ~Present(b, j)
    /\ \A i \in 1..(j - 1) : ~Fails(b, requirements, i)

\* b fails active requirement i, lacks the key of a later active requirement,
\* and carries the keys of the active requirements before i
ShortCircuited(b) ==
  \E i \in AttrIndices : \E j \in AttrIndices :
    /\ i < j
    /\ Fails(b, requirements, i)
    /\ requirements[j][1]
    /\ ~Present(b, j)
    /\ \A h \in 1..(i - 1) : requirements[h][1] => Present(b, h)

\* C10: an alternative that fails an active requirement and lacks the key of
\* a later active one is disqualified without an error; a key missing at an
\* active index below every failing index raises.
C10_ShortCircuit ==
  FilterRanOnce =>
    /\ \A k \in 1..Len(alternatives) :
         ( /\ ShortCircuited(alternatives[k])
           /\ \A h \in 1..(k - 1) : ~LookupRaises(alternatives[h]) )
         => k \in Range(results.disqualified)
    /\ (outcome = "KeyError") <=> (\E k \in 1..Len(alternatives) : LookupRaises(alternatives[k]))

C10_Witness ==
  /\ FilterRanOnce
  /\ outcome # "KeyError"
  /\ \E k \in Range(results.disqualified) : ShortCircuited(alternatives[k])
ZeroWeights == \A i \in 1..Len(weights) : weights[i] = 0

AllHaveInfo == \A k \in 1..Len(alternatives) : HasInfo(alternatives[k])

C5_SingleSurvivorReturns ==
  (pc = "done" /\ FilterCompletedOnce /\ Len(results.considered) = 1) =>
    (outcome = "One" /\ alternatives_values = <<>> /\ results.optimum_id = NoneId)

\* C6: with 2 or more considered alternatives and zero weights the outcome is
\* the unranked success result, never the fault result, whatever attribute
\* keys the considered alternatives carry.
C6_ZeroWeightsNeverFault ==
  (pc = "done" /\ FilterCompletedOnce /\ AllHaveInfo
     /\ Len(results.considered) >= 2 /\ ZeroWeights) =>
    (outcome = "SkipRank" /\ results.optimum_id = NoneId)

\* C7: whenever solve returns the failure result, the session result carries
\* no ranking: optimum_id is None.
C7_FaultCarriesNoRanking ==
  (pc = "done" /\ outcome = "Faulted") => results.optimum_id = NoneId

\* a considered alternative lacks an attribute key the matrix builder reads
MatrixKeyMissing ==
  /\ Len(results.considered) >= 2
  /\ \E k \in Range(results.considered) :
       \E i \in AttrIndices : ~Present(alternatives[k], i)

\* C8: a missing attribute key, met in the filter or in the matrix builder,
\* ends solve with its own error outcome, never with the generic failure
\* result nor with a success result.
C8_MissingKeyDistinct ==
  (pc = "done" /\ FilterRanOnce /\ (outcome = "KeyError" \/ MatrixKeyMissing)) =>
    outcome = "KeyError"

\* C9: after any number of consecutive solve calls without new, considered
\* and disqualified contain each input alternative exactly once, the value
\* matrix has one row per considered alternative, and optimum_id, when
\* present, indexes considered.
C9_FreshPerSolve ==
  (pc = "done" /\ outcome \in {"Zero", "SkipRank", "Ranked", "Faulted"}) =>
    /\ Len(results.considered) + Len(results.disqualified) = Len(alternatives)
    /\ Range(results.considered) \cup Range(results.disqualified) = 1..Len(alternatives)
    /\ outcome \in {"SkipRank", "Ranked"} =>
         Len(alternatives_values) = Len(results.considered)
    /\ results.optimum_id # NoneId =>
         (0 <= results.optimum_id /\ results.optimum_id < Len(results.considered))
====
